---- MODULE Spec2Model ----
(***************************************************************************)
(* Model of Source/SynthUsingMidiInput.h: the sine voice, the audio source *)
(* that owns the 4-voice synthesiser, and the threads that drive it (the   *)
(* render callback, the slider on the message thread, the on-screen        *)
(* keyboard, the MIDI input callback).                                     *)
(*                                                                         *)
(* Numbers.  tailOff is a fraction of TailOne (tailOff = 1.0 is TailOne).  *)
(* A decay coefficient is a pair <<num, den>>.  The coefficients are taken *)
(* on the dyadic grid 1/2^e, on which the double product of line 120 is    *)
(* exact, so the model's arithmetic is the code's arithmetic on that grid. *)
(* level is in units of 1/(100*GainDen), velocity in percent.              *)
(* The oscillator phase currentAngle is kept by its sign only: 0, or 1 for  *)
(* a phase that has advanced; a sample is kept by its amplitude, with the  *)
(* factor sin(currentAngle) taken as 0 at phase 0 and as 1 after it.       *)
(***************************************************************************)
EXTENDS Integers, Sequences, FiniteSets

\* ------------------------------------------------------------- bounds
MaxBlock == 2
MaxStart == 1
MaxKeyQueue == 1
MaxPending == 1
MaxTs == 1
MaxBlockKeys == 2

\* ------------------------------------------------- program constants
NumVoices == 4
GainNum == 15
GainDen == 100
ThresholdNum == 5
ThresholdDen == 1000
NoNote == -1

Voices == 1..NumVoices
Notes == {60, 64}
Velocities == {100}
SampleRates == {44100}
TailOne == 2^12
Decays == {<<1, 16>>, <<1, 256>>}
\* the member initialiser decay = 0.0, without the constructor's decay(0.999)
InitDecay_Member == <<0, 1>>

InitDecay == <<1, 16>>

VARIABLES
    voices,      \* voice index -> [note, currentAngle, angleDelta, level, tailOff, decay]
    numSounds,   \* number of sound descriptors held by the synthesiser
    sampleRate,  \* the synthesiser's playback sample rate (0: never set)
    pending,     \* the MIDI collector's buffered events
    pc,          \* position of the render thread inside getNextAudioBlock
    blk,         \* [start, num] of the block being rendered
    drainArg,    \* the sample count handed to removeNextBlockOfMessages
    nDrained,    \* events the collector returned in this callback
    nApplied,    \* of these, the events the synthesiser has applied
    midi,        \* incomingMidi: events not yet applied, in timestamp order
    pos,         \* first sample of the block not yet rendered
    segEnd,      \* end of the sub-range the voices are being rendered for
    vIdx,        \* the voice whose renderNextBlock is running
    nLeft,       \* samples that voice has still to render in the sub-range
    buffer,      \* bufferToFill.buffer: sample index -> value (all channels alike)
    contrib,     \* history: voice -> sample index -> the sample it added in this
                 \* callback, NoSample where it added none
    relSamples,  \* history: samples rendered by a voice since it entered tail-off
    relSlowest,  \* history: the largest coefficient it has held since then
    lastOp       \* history: the synthesiser operation applied last, and the
                 \* voices as they were before it

vars == <<voices, numSounds, sampleRate, pending, pc, blk,
          drainArg, nDrained, nApplied, midi, pos, segEnd, vIdx, nLeft,
          buffer, contrib, relSamples, relSlowest, lastOp>>

\* --------------------------------------------------------- arithmetic
\* a/b <= c/d for positive denominators
FracLeq(a, b, c, d) == a * d <= c * b

DecayLeq(d1, d2) == FracLeq(d1[1], d1[2], d2[1], d2[2])

DecayMax(d1, d2) == IF DecayLeq(d1, d2) THEN d2 ELSE d1

\* juce::MidiMessage::getMidiNoteInHertz, 440 * 2^((n-69)/12), rounded to 1 Hz
NoteHz(n) ==
    CASE n = 60 -> 262
      [] n = 64 -> 330
      [] n = 67 -> 392
      [] OTHER -> 440

\* 2*pi in thousandths of a radian
TwoPiMilli == 6283

\* ----------------------------------------------------- SineWaveSound
appliesToNote(n) == TRUE

appliesToChannel(c) == TRUE

\* ----------------------------------------------------- SineWaveVoice
NewVoice == [note |-> NoNote, currentAngle |-> 0, angleDelta |-> 0, level |-> 0,
             tailOff |-> 0, decay |-> InitDecay]

\* canPlaySound with a cast that never succeeds
canPlaySound_Never(nSounds) == FALSE

\* dynamic_cast<SineWaveSound*>(sound) != nullptr: every sound of the pool is one
canPlaySound(nSounds) == nSounds > 0

\* startNote without tailOff = 0.0
startNote_KeepsTail(vc, n, vel, rate) ==
    [vc EXCEPT !.currentAngle = 0,
               !.level = vel * GainNum,
               !.angleDelta = (NoteHz(n) * TwoPiMilli) \div rate]

startNote(vc, n, vel, rate) ==
    [vc EXCEPT !.currentAngle = 0,
               !.level = vel * GainNum,
               !.tailOff = 0,
               !.angleDelta = (NoteHz(n) * TwoPiMilli) \div rate]

\* stopNote without the reset of angleDelta
stopNote_KeepsAngle(vc, allowTailOff) ==
    IF allowTailOff
    THEN IF vc.tailOff = 0 THEN [vc EXCEPT !.tailOff = TailOne] ELSE vc
    ELSE [vc EXCEPT !.note = NoNote]

\* stopNote without the test tailOff == 0.0
stopNote_Restarts(vc, allowTailOff) ==
    IF allowTailOff
    THEN [vc EXCEPT !.tailOff = TailOne]
    ELSE [vc EXCEPT !.note = NoNote, !.angleDelta = 0]

stopNote(vc, allowTailOff) ==
    IF allowTailOff
    THEN IF vc.tailOff = 0 THEN [vc EXCEPT !.tailOff = TailOne] ELSE vc
    ELSE [vc EXCEPT !.note = NoNote, !.angleDelta = 0]

\* setDecay that also starts the release again
setDecay_ResetsTail(vc, d) ==
    [vc EXCEPT !.decay = d, !.tailOff = IF @ > 0 THEN TailOne ELSE @]

setDecay(vc, d) == [vc EXCEPT !.decay = d]

\* currentAngle += angleDelta, by sign: angleDelta is never negative
AddAngle(a, delta) == IF delta /= 0 THEN 1 ELSE a

\* the test against 0.0005 instead
Silent_Low(t) == FracLeq(t, TailOne, ThresholdNum, 10 * ThresholdDen)

\* tailOff <= 0.005
Silent(t) == FracLeq(t, TailOne, ThresholdNum, ThresholdDen)

\* the sample loop without angleDelta = 0.0 at the threshold
renderSample_KeepsAngle(vc) ==
    IF vc.tailOff > 0
    THEN LET t == (vc.tailOff * vc.decay[1]) \div vc.decay[2]
             a == AddAngle(vc.currentAngle, vc.angleDelta)
         IN  IF Silent(t)
             THEN [vc EXCEPT !.currentAngle = a, !.tailOff = t, !.note = NoNote]
             ELSE [vc EXCEPT !.currentAngle = a, !.tailOff = t]
    ELSE [vc EXCEPT !.currentAngle = AddAngle(vc.currentAngle, vc.angleDelta)]

\* one iteration of the sample loop of renderNextBlock, for a voice with
\* angleDelta /= 0
renderSample(vc) ==
    IF vc.tailOff > 0
    THEN LET t == (vc.tailOff * vc.decay[1]) \div vc.decay[2]
             a == AddAngle(vc.currentAngle, vc.angleDelta)
         IN  IF Silent(t)
             THEN [vc EXCEPT !.currentAngle = a, !.tailOff = t,
                             !.note = NoNote, !.angleDelta = 0]
             ELSE [vc EXCEPT !.currentAngle = a, !.tailOff = t]
    ELSE [vc EXCEPT !.currentAngle = AddAngle(vc.currentAngle, vc.angleDelta)]

\* std::sin (currentAngle), by amplitude: 0 at phase 0
Sine(a) == IF a = 0 THEN 0 ELSE 1

\* currentSample of the sample loop: sin(currentAngle) * level * tailOff in
\* the tail-off branch, sin(currentAngle) * level in the other
currentSample(vc) ==
    Sine(vc.currentAngle) * vc.level * (IF vc.tailOff > 0 THEN vc.tailOff ELSE TailOne)

\* addSample that stores the sample instead of adding it
addSample_Stores(buf, i, x) == [buf EXCEPT ![i] = x]

\* outputBuffer.addSample (i, startSample, currentSample), every channel alike
addSample(buf, i, x) == [buf EXCEPT ![i] = @ + x]

\* --------------------------------------------------- the output buffer
\* the sample indices a callback's buffer can have
Samples == 0..(MaxStart + MaxBlock - 1)

\* what the caller's buffer holds when the callback is entered
Stale == {7}

NoSample == -1

NoContrib == [v \in Voices |-> [i \in Samples |-> NoSample]]

\* bufferToFill.clearActiveBufferRegion()
clearActiveBufferRegion(buf, start, num) ==
    [i \in DOMAIN buf |-> IF i >= start /\ i < start + num THEN 0 ELSE buf[i]]

\* ------------------------------------------------ voice pool (synth)
IsIdle(vc) == vc.note = NoNote

IdleVoices(vs) == {v \in Voices : IsIdle(vs[v])}

Lowest(S) == CHOOSE v \in S : \A w \in S : v <= w

\* note-on that takes the first voice when none is idle
noteOn_Stealing(vs, nSounds, n, vel, rate) ==
    IF canPlaySound(nSounds) /\ appliesToNote(n) /\ appliesToChannel(1)
    THEN LET v == IF IdleVoices(vs) /= {} THEN Lowest(IdleVoices(vs)) ELSE 1
         IN  [vs EXCEPT ![v] = startNote([vs[v] EXCEPT !.note = n], n, vel, rate)]
    ELSE vs

\* note-on: the first idle voice whose sound accepts the note, else dropped
noteOn(vs, nSounds, n, vel, rate) ==
    IF canPlaySound(nSounds) /\ appliesToNote(n) /\ appliesToChannel(1)
       /\ IdleVoices(vs) /= {}
    THEN LET v == Lowest(IdleVoices(vs))
         IN  [vs EXCEPT ![v] = startNote([vs[v] EXCEPT !.note = n], n, vel, rate)]
    ELSE vs

\* note-off that stops every voice that is playing
noteOff_All(vs, n, allowTailOff) ==
    [v \in Voices |-> IF vs[v].note /= NoNote THEN stopNote(vs[v], allowTailOff)
                      ELSE vs[v]]

\* note-off: stop the voices bound to the note
noteOff(vs, n, allowTailOff) ==
    [v \in Voices |-> IF vs[v].note = n THEN stopNote(vs[v], allowTailOff)
                      ELSE vs[v]]

ApplyEvent(vs, nSounds, e, rate) ==
    IF e.kind = "on" THEN noteOn(vs, nSounds, e.note, e.vel, rate)
    ELSE noteOff(vs, e.note, e.tail)

\* ----------------------------------------------------------- events
NoteOnEvents == {[kind |-> "on", note |-> n, vel |-> w, tail |-> FALSE] :
                    n \in Notes, w \in Velocities}

NoteOffEvents == {[kind |-> "off", note |-> n, vel |-> 0, tail |-> t] :
                    n \in Notes, t \in BOOLEAN}

Events == NoteOnEvents \cup NoteOffEvents

\* what the MIDI device sends
MidiEvents == {e \in Events : e.note = 60 /\ (e.kind = "off" => e.tail)}

\* what the on-screen keyboard has added to the keyboard state between two
\* render callbacks
KeySeqs == UNION {[1..n -> Events] : n \in 0..MaxKeyQueue}

\* ... in the specification of the render thread alone: up to MaxBlockKeys
\* keys; key 60 is pressed and released (a release stops with or without
\* tail-off), key 64 is pressed and held
BlockEvents == {e \in Events : e.note = 64 => e.kind = "on"}

BlockKeySeqs == UNION {[1..n -> BlockEvents] : n \in 0..MaxBlockKeys}

\* ... in the step-by-step specification: one key, pressed or released
ThreadKeySeqs == UNION {[1..n -> MidiEvents] : n \in 0..1}

Stamp(e, t, s) == [kind |-> e.kind, note |-> e.note, vel |-> e.vel,
                   tail |-> e.tail, ts |-> t, src |-> s]

\* addEvent that puts the new event first
InsertByTs_Front(q, e) == <<e>> \o q

RECURSIVE InsertByTs(_, _)
\* MidiBuffer::addEvent: after the events with a timestamp <= the new one
InsertByTs(q, e) ==
    IF q = <<>> THEN <<e>>
    ELSE IF Head(q).ts <= e.ts THEN <<Head(q)>> \o InsertByTs(Tail(q), e)
    ELSE <<e>> \o q

\* ------------------------------------------------ MidiMessageCollector
\* addMessageToQueue: into the timestamp-ordered pending buffer
pushEvent(q, e, t) == InsertByTs(q, Stamp(e, t, "midi"))

\* removeNextBlockOfMessages(out, n): the events that fall within the next n
\* samples, timestamps relative to the start of the block
DrainOut(q, n) == SelectSeq(q, LAMBDA e : e.ts < n)

\* ... and the events it leaves buffered, rebased to the block after
DrainRest(q, n) ==
    LET late == SelectSeq(q, LAMBDA e : e.ts >= n)
    IN  [i \in 1..Len(late) |-> [late[i] EXCEPT !.ts = late[i].ts - n]]

\* ---------------------------------------------------- MidiKeyboardState
\* processNextMidiBuffer(buffer, start, num, true): the keyboard's events are
\* added to the buffer at start + offs[i], inside the block and in their order
KeyOffsets(q, num) ==
    {offs \in [1..Len(q) -> 0..(num - 1)] :
        \A i, j \in 1..Len(q) : i <= j => offs[i] <= offs[j]}

RECURSIVE InjectKeys(_, _, _, _, _)
InjectKeys(buf, q, offs, start, i) ==
    IF i > Len(q) THEN buf
    ELSE InjectKeys(InsertByTs(buf, Stamp(q[i], start + offs[i], "key")),
                    q, offs, start, i + 1)

\* Synthesiser::renderNextBlock walks the events of [start, start + num)
InWindow(buf, start, num) ==
    SelectSeq(buf, LAMBDA e : e.ts >= start /\ e.ts < start + num)

\* ------------------------------------------------------ history helpers
Releasing(vc) == vc.note /= NoNote /\ vc.tailOff > 0

\* after a step that rendered no sample: a voice that is releasing keeps its
\* count, one that has just entered tail-off starts it, any other has none
HistSamples(old, new, rs) ==
    [v \in Voices |-> IF Releasing(new[v]) /\ Releasing(old[v]) THEN rs[v] ELSE 0]

HistSlowest(old, new, rd) ==
    [v \in Voices |->
        IF ~Releasing(new[v]) THEN InitDecay
        ELSE IF Releasing(old[v]) THEN DecayMax(rd[v], new[v].decay)
        ELSE new[v].decay]

\* ------------------------------------- a whole block, as one function
RECURSIVE RenderVoice(_, _)
\* SineWaveVoice::renderNextBlock for n samples
RenderVoice(vc, n) ==
    IF n = 0 \/ vc.angleDelta = 0 THEN vc
    ELSE RenderVoice(renderSample(vc), n - 1)

\* Synthesiser::renderVoices on the pool and the history of its releases,
\* P = [vs, rs, rd]
PoolRender(P, n) ==
    LET new == [v \in Voices |-> RenderVoice(P.vs[v], n)]
    IN  [vs |-> new,
         rs |-> [v \in Voices |-> IF Releasing(new[v]) THEN P.rs[v] + n ELSE 0],
         rd |-> [v \in Voices |-> IF Releasing(new[v]) THEN P.rd[v] ELSE InitDecay]]

PoolApply(P, nSounds, e, rate) ==
    LET new == ApplyEvent(P.vs, nSounds, e, rate)
    IN  [vs |-> new,
         rs |-> HistSamples(P.vs, new, P.rs),
         rd |-> HistSlowest(P.vs, new, P.rd)]

\* SynthAudioSource::setDecay: every voice of the pool
PoolSetDecay(P, d) ==
    LET new == [v \in Voices |-> setDecay(P.vs[v], d)]
    IN  [vs |-> new,
         rs |-> HistSamples(P.vs, new, P.rs),
         rd |-> HistSlowest(P.vs, new, P.rd)]

RECURSIVE PoolRun(_, _, _, _, _, _)
\* Synthesiser::renderNextBlock: render up to each event, apply it, go on
PoolRun(P, nSounds, rate, evs, from, end) ==
    IF evs = <<>> THEN PoolRender(P, end - from)
    ELSE PoolRun(PoolApply(PoolRender(P, Head(evs).ts - from), nSounds, Head(evs), rate),
                 nSounds, rate, Tail(evs), Head(evs).ts, end)

NoOp == [op |-> "none", note |-> NoNote, tail |-> FALSE,
         before |-> [v \in Voices |-> NewVoice]]

\* --------------------------------------------------------------- Init
Init ==
    /\ voices = [v \in Voices |-> NewVoice]
    /\ numSounds = 1
    /\ sampleRate = 0
    /\ pending = <<>>
    /\ pc = "idle"
    /\ blk = [start |-> 0, num |-> 0]
    /\ drainArg = 0
    /\ nDrained = 0
    /\ nApplied = 0
    /\ midi = <<>>
    /\ pos = 0
    /\ segEnd = 0
    /\ vIdx = 0
    /\ nLeft = 0
    /\ buffer = [i \in Samples |-> 0]
    /\ contrib = NoContrib
    /\ relSamples = [v \in Voices |-> 0]
    /\ relSlowest = [v \in Voices |-> InitDecay]
    /\ lastOp = NoOp

renderVars == <<pc, blk, drainArg, nDrained, nApplied, midi, pos, segEnd, vIdx, nLeft,
                buffer, contrib>>

histVars == <<relSamples, relSlowest>>

PoolNow == [vs |-> voices, rs |-> relSamples, rd |-> relSlowest]

SetPool(P) ==
    /\ voices' = P.vs
    /\ relSamples' = P.rs
    /\ relSlowest' = P.rd

\* ---------------------------------------------- the render callback
\* SynthAudioSource::getNextAudioBlock, as one step
GetNextAudioBlock(start, num, keys) ==
    /\ pc = "idle"
    /\ sampleRate /= 0
    /\ \E offs \in KeyOffsets(keys, num) :
          LET out == DrainOut(pending, start)
              evs == InWindow(InjectKeys(out, keys, offs, start, 1), start, num)
          IN  \E P \in {PoolRun(PoolNow, numSounds, sampleRate, evs, start, start + num)} :
                SetPool(P)
    /\ pending' = DrainRest(pending, start)
    /\ UNCHANGED <<numSounds, sampleRate, renderVars, lastOp>>

\* ------------------------------- the render callback, step by step
\* SynthAudioSource::getNextAudioBlock up to the call of synth.renderNextBlock
BeginBlock(start, num, keys) ==
    /\ pc = "idle"
    /\ sampleRate /= 0
    /\ LET arg == start
           out == DrainOut(pending, arg)
       IN  /\ drainArg' = arg
           /\ nDrained' = Len(out)
           /\ pending' = DrainRest(pending, arg)
           /\ \E offs \in KeyOffsets(keys, num) :
                 midi' = InWindow(InjectKeys(out, keys, offs, start, 1), start, num)
    /\ \E g \in Stale :
          buffer' = clearActiveBufferRegion([i \in Samples |-> g], start, num)
    /\ contrib' = NoContrib
    /\ blk' = [start |-> start, num |-> num]
    /\ nApplied' = 0
    /\ pos' = start
    /\ pc' = "synth"
    /\ UNCHANGED <<voices, numSounds, sampleRate, segEnd, vIdx, nLeft,
                   histVars, lastOp>>

\* the synthesiser applies the event that is due at the current sample
ApplyMidiEvent ==
    /\ pc = "synth"
    /\ midi /= <<>>
    /\ Head(midi).ts = pos
    /\ SetPool(PoolApply(PoolNow, numSounds, Head(midi), sampleRate))
    /\ midi' = Tail(midi)
    /\ nApplied' = nApplied + (IF Head(midi).src = "midi" THEN 1 ELSE 0)
    /\ UNCHANGED <<numSounds, sampleRate, pending, pc, blk,
                   drainArg, nDrained, pos, segEnd, vIdx, nLeft,
                   buffer, contrib, lastOp>>

\* the synthesiser renders every voice up to the next event or the block's end
BeginSubBlock ==
    /\ pc = "synth"
    /\ LET end == IF midi /= <<>> THEN Head(midi).ts ELSE blk.start + blk.num
       IN  /\ pos < end
           /\ segEnd' = end
           /\ nLeft' = end - pos
    /\ vIdx' = 1
    /\ pc' = "voice"
    /\ UNCHANGED <<voices, numSounds, sampleRate, pending, blk,
                   drainArg, nDrained, nApplied, midi, pos,
                   buffer, contrib, histVars, lastOp>>

\* SineWaveVoice::renderNextBlock, one pass of its sample loop
RenderSample ==
    /\ pc = "voice"
    /\ nLeft > 0
    /\ voices[vIdx].angleDelta /= 0
    /\ LET vc == renderSample(voices[vIdx])
           x == currentSample(voices[vIdx])
           i == segEnd - nLeft
       IN  /\ buffer' = addSample(buffer, i, x)
           /\ contrib' = [contrib EXCEPT ![vIdx][i] = x]
           /\ voices' = [voices EXCEPT ![vIdx] = vc]
           /\ nLeft' = IF vc.angleDelta = 0 THEN 0 ELSE nLeft - 1
           /\ relSamples' = [relSamples EXCEPT ![vIdx] =
                                IF Releasing(vc) THEN @ + 1 ELSE 0]
           /\ relSlowest' = [relSlowest EXCEPT ![vIdx] =
                                IF Releasing(vc) THEN @ ELSE InitDecay]
    /\ UNCHANGED <<numSounds, sampleRate, pending, pc, blk,
                   drainArg, nDrained, nApplied, midi, pos, segEnd, vIdx, lastOp>>

\* SineWaveVoice::renderNextBlock returns (idle voice, or its loop has ended)
NextVoice ==
    /\ pc = "voice"
    /\ nLeft = 0 \/ voices[vIdx].angleDelta = 0
    /\ IF vIdx < NumVoices
       THEN /\ vIdx' = vIdx + 1
            /\ nLeft' = segEnd - pos
            /\ UNCHANGED <<pc, pos, segEnd>>
       ELSE /\ vIdx' = 0
            /\ nLeft' = 0
            /\ pos' = segEnd
            /\ segEnd' = 0
            /\ pc' = "synth"
    /\ UNCHANGED <<voices, numSounds, sampleRate, pending, blk,
                   drainArg, nDrained, nApplied, midi,
                   buffer, contrib, histVars, lastOp>>

\* getNextAudioBlock returns
EndBlock ==
    /\ pc = "synth"
    /\ midi = <<>>
    /\ pos = blk.start + blk.num
    /\ pc' = "idle"
    /\ pos' = 0
    /\ blk' = [start |-> 0, num |-> 0]
    /\ drainArg' = 0
    /\ nDrained' = 0
    /\ nApplied' = 0
    /\ buffer' = [i \in Samples |-> 0]
    /\ contrib' = NoContrib
    /\ UNCHANGED <<voices, numSounds, sampleRate, pending, midi, segEnd, vIdx, nLeft,
                   histVars, lastOp>>

\* ------------------------------------------------- the other callers
\* SynthAudioSource::prepareToPlay
PrepareToPlay(rate) ==
    /\ pc = "idle"
    /\ sampleRate' = rate
    /\ UNCHANGED <<voices, numSounds, pending, renderVars, histVars, lastOp>>

\* SynthAudioSource::releaseResources: an empty body
ReleaseResources ==
    /\ pc = "idle"
    /\ UNCHANGED vars

\* SynthAudioSource::setUsingSineWaveSound: synth.clearSounds()
SetUsingSineWaveSound ==
    /\ numSounds' = 0
    /\ UNCHANGED <<voices, sampleRate, pending, renderVars, histVars, lastOp>>

\* MainContentComponent::sliderValueChanged -> SynthAudioSource::setDecay, on
\* the message thread, whatever the render thread is doing
SliderValueChanged(d) ==
    /\ SetPool(PoolSetDecay(PoolNow, d))
    /\ UNCHANGED <<numSounds, sampleRate, pending, renderVars, lastOp>>

\* the MIDI input callback registered by setMidiInput hands an event to the
\* collector
MidiInput(e, t) ==
    /\ Len(pending) < MaxPending
    /\ pending' = pushEvent(pending, e, t)
    /\ UNCHANGED <<voices, numSounds, sampleRate, renderVars, histVars, lastOp>>

Next ==
    \/ \E start \in 0..MaxStart, num \in 1..MaxBlock, keys \in KeySeqs :
          GetNextAudioBlock(start, num, keys)
    \/ \E rate \in SampleRates : PrepareToPlay(rate)
    \/ ReleaseResources
    \/ SetUsingSineWaveSound
    \/ \E d \in Decays : SliderValueChanged(d)
    \/ \E e \in MidiEvents, t \in 0..MaxTs : MidiInput(e, t)

Spec == Init /\ [][Next]_vars

\* the same program with the render callback taken step by step, so that the
\* other threads run while it is inside getNextAudioBlock
NextThreads ==
    \/ \E start \in 0..MaxStart, num \in 1..MaxBlock, keys \in ThreadKeySeqs :
          BeginBlock(start, num, keys)
    \/ ApplyMidiEvent
    \/ BeginSubBlock
    \/ RenderSample
    \/ NextVoice
    \/ EndBlock
    \/ \E rate \in SampleRates : PrepareToPlay(rate)
    \/ ReleaseResources
    \/ \E d \in Decays : SliderValueChanged(d)
    \/ \E e \in MidiEvents, t \in 0..MaxTs : MidiInput(e, t)

SpecThreads == Init /\ [][NextThreads]_vars

\* the render thread alone, step by step, fed by the on-screen keyboard
NextBlock ==
    \/ \E start \in 0..MaxStart, num \in 1..MaxBlock, keys \in BlockKeySeqs :
          BeginBlock(start, num, keys)
    \/ ApplyMidiEvent
    \/ BeginSubBlock
    \/ RenderSample
    \/ NextVoice
    \/ EndBlock
    \/ \E rate \in SampleRates : PrepareToPlay(rate)
    \/ ReleaseResources

SpecBlock == Init /\ [][NextBlock]_vars

\* ------------------------- the synthesiser's operations, one at a time
\* What renderNextBlock does with a block, taken apart: it applies an event
\* (noteOn, noteOff) or renders the voices for a sub-range; setDecay comes
\* between.  lastOp keeps the operation and the voices it found.  Note 60 is
\* started and stopped, note 64 is started and held.
Did(op, note, tail) ==
    lastOp' = [op |-> op, note |-> note, tail |-> tail, before |-> voices]

SynthNoteOn(e) ==
    /\ sampleRate /= 0
    /\ SetPool(PoolApply(PoolNow, numSounds, e, sampleRate))
    /\ Did("noteOn", e.note, FALSE)
    /\ UNCHANGED <<numSounds, sampleRate, pending, renderVars>>

SynthNoteOff(e) ==
    /\ sampleRate /= 0
    /\ SetPool(PoolApply(PoolNow, numSounds, e, sampleRate))
    /\ Did("noteOff", e.note, e.tail)
    /\ UNCHANGED <<numSounds, sampleRate, pending, renderVars>>

SynthRenderVoices(n) ==
    /\ sampleRate /= 0
    /\ SetPool(PoolRender(PoolNow, n))
    /\ Did("render", NoNote, FALSE)
    /\ UNCHANGED <<numSounds, sampleRate, pending, renderVars>>

SynthSetDecay(d) ==
    /\ SetPool(PoolSetDecay(PoolNow, d))
    /\ Did("setDecay", NoNote, FALSE)
    /\ UNCHANGED <<numSounds, sampleRate, pending, renderVars>>

NextPool ==
    \/ \E e \in NoteOnEvents : SynthNoteOn(e)
    \/ \E e \in NoteOffEvents \cap BlockEvents : SynthNoteOff(e)
    \/ \E n \in 1..MaxBlock : SynthRenderVoices(n)
    \/ \E d \in Decays : SynthSetDecay(d)
    \/ \E rate \in SampleRates : PrepareToPlay(rate)
    \/ ReleaseResources

SpecPool == Init /\ [][NextPool]_vars

\* ------------------------------------------------------------- claims
Bound(vs, n) == {v \in Voices : vs[v].note = n}

Envelope(vc) == vc.level * vc.tailOff

RECURSIVE KSearch(_, _, _, _)
KSearch(d, k, num, den) ==
    IF FracLeq(num, den, ThresholdNum, ThresholdDen) THEN k
    ELSE KSearch(d, k + 1, num * d[1], den * d[2])

\* the smallest k with d^k <= 0.005
KSamples(d) == KSearch(d, 0, 1, 1)

\* C1: the active voices never outnumber the pool; a note-on that finds no
\* idle voice changes no voice, and a voice is only ever bound to a note by the
\* note-on for that note being applied (a dropped note-on is not started later).
C1_FullPoolDropsNoteOn ==
    /\ Cardinality({v \in DOMAIN voices : voices[v].note /= NoNote}) <= 4
    /\ (lastOp.op = "noteOn" /\ IdleVoices(lastOp.before) = {})
          => voices = lastOp.before
    /\ \A v \in Voices :
          (voices[v].note /= lastOp.before[v].note /\ voices[v].note /= NoNote)
             => (lastOp.op = "noteOn" /\ lastOp.note = voices[v].note)

\* a note-on has been applied to a pool without an idle voice
C1_Witness ==
    /\ lastOp.op = "noteOn"
    /\ IdleVoices(lastOp.before) = {}

\* C2: for every note number, at most one voice of the pool is bound to it.
C2_OneVoicePerNote ==
    \A n \in Notes : Cardinality(Bound(voices, n)) <= 1

\* C3: inside a render callback the collector has been drained with the
\* number of samples of the block, and every event it returned lies in the
\* window the callback renders (it has been applied or is waiting to be).
C3_DrainMatchesBlock ==
    pc /= "idle" =>
        /\ drainArg = blk.num
        /\ nDrained = nApplied + Len(SelectSeq(midi, LAMBDA e : e.src = "midi"))

\* C4: when a render callback has rendered its block, every event it took
\* from the collector has been applied to the voice pool, once; the events of
\* a callback are applied in non-decreasing timestamp order.
C4_EveryEventDeliveredOnce ==
    /\ \A i, j \in 1..Len(midi) : i <= j => midi[i].ts <= midi[j].ts
    /\ (pc = "synth" /\ midi = <<>> /\ pos = blk.start + blk.num)
          => nApplied = nDrained

\* C5: while a voice's renderNextBlock is running its sample loop, no step
\* writes that voice's decay coefficient.
C5_NoWriteInsideRender ==
    [][(pc = "voice" /\ nLeft > 0 /\ voices[vIdx].angleDelta /= 0)
          => voices'[vIdx].decay = voices[vIdx].decay]_vars

\* C6: the pool holds exactly 4 voices and exactly 1 sound descriptor.
C6_PoolSizeFixed ==
    /\ Cardinality(DOMAIN voices) = 4
    /\ numSounds = 1

\* C7: every voice is idle (angleDelta = 0, no note) or active (angleDelta /= 0,
\* bound to one note number).
C7_IdleOrActive ==
    \A v \in Voices :
        \/ voices[v].angleDelta = 0 /\ voices[v].note = NoNote
        \/ voices[v].angleDelta /= 0 /\ voices[v].note \in Notes

\* a releasing voice has been stopped without tail-off while another plays on
C7_Witness ==
    /\ lastOp.op = "noteOff"
    /\ ~lastOp.tail
    /\ \E v \in Bound(lastOp.before, lastOp.note) : Releasing(lastOp.before[v])
    /\ \E w \in Voices : voices[w].note /= NoNote

\* C8: a note-on applied while a voice is idle and the sound accepts the note
\* binds the lowest-index idle voice to the note and leaves every other voice
\* as it was.
C8_NoteOnTakesLowestIdle ==
    (/\ lastOp.op = "noteOn"
     /\ IdleVoices(lastOp.before) /= {}
     /\ numSounds > 0 /\ appliesToNote(lastOp.note) /\ appliesToChannel(1))
    => \E v \in IdleVoices(lastOp.before) :
          /\ \A w \in IdleVoices(lastOp.before) : v <= w
          /\ voices[v].note = lastOp.note
          /\ \A w \in Voices \ {v} : voices[w] = lastOp.before[w]

\* a note-on has been applied while voice 1 was busy and two others were idle
C8_Witness ==
    /\ lastOp.op = "noteOn"
    /\ numSounds > 0
    /\ 1 \notin IdleVoices(lastOp.before)
    /\ Cardinality(IdleVoices(lastOp.before)) >= 2

\* C9 as stated: a voice in tail-off is idle after at most k rendered samples,
\* k the smallest integer with decay^k <= 0.005 for the coefficient it holds.
C9_IdleWithinKOfCoefficient ==
    \A v \in Voices :
        Releasing(voices[v]) => relSamples[v] < KSamples(voices[v].decay)

\* C9 amended: a voice in tail-off is idle after at most k rendered samples,
\* k the smallest integer with d^k <= 0.005 for d the largest coefficient the
\* voice has held since it entered tail-off.
C9_IdleWithinKOfSlowest ==
    \A v \in Voices :
        Releasing(voices[v]) => relSamples[v] < KSamples(relSlowest[v])

\* a voice part-way through its release whose coefficient setDecay has changed
C9_Witness ==
    \E v \in Voices :
        /\ Releasing(voices[v])
        /\ relSamples[v] >= 1
        /\ relSlowest[v] /= voices[v].decay

\* C10: from tail-off to idle, level * tailOff of a voice never increases,
\* whatever is applied: a render, a further stop, a setDecay.
C10_EnvelopeNeverRises ==
    \A v \in Voices :
        Releasing(lastOp.before[v])
            => Envelope(voices[v]) <= Envelope(lastOp.before[v])

\* a tail-off stop has been applied to a voice whose release had already decayed
C10_Witness ==
    /\ lastOp.op = "noteOff"
    /\ lastOp.tail
    /\ \E v \in Bound(lastOp.before, lastOp.note) :
          /\ Releasing(lastOp.before[v])
          /\ lastOp.before[v].tailOff < TailOne

\* the sample indices a voice has added a sample to in this callback
Wrote(v) == {i \in Samples : contrib[v][i] /= NoSample}

\* the render callback has rendered its whole block
BlockDone == pc = "synth" /\ midi = <<>> /\ pos = blk.start + blk.num /\ blk.num > 0

\* C11: within a render callback, the event with timestamp t is applied when
\* the voices have been rendered up to t and no sample at t or later has been
\* written; a sample i is rendered only when every event not yet applied has
\* a timestamp after i; a voice still active at the end of the block has been
\* rendered up to the block's last sample.
C11_EventSplitsRendering ==
    [][/\ (pc = "synth" /\ midi /= <<>> /\ midi' = Tail(midi))
            => /\ pos = Head(midi).ts
               /\ \A v \in Voices : \A i \in Wrote(v) : i < Head(midi).ts
       /\ \A v \in Voices : \A i \in Samples :
            contrib'[v][i] /= contrib[v][i] /\ contrib'[v][i] /= NoSample
               => /\ \A k \in 1..Len(midi) : midi[k].ts > i
                  /\ \A j \in Wrote(v) : j < i
       /\ BlockDone
            => \A v \in Voices :
                  voices[v].angleDelta /= 0 => (blk.start + blk.num - 1) \in Wrote(v)
      ]_vars

\* a 2-sample block has been rendered in which a voice played the first
\* sample and was then stopped without tail-off by an event at the second
C11_Witness ==
    /\ BlockDone
    /\ blk.num = 2
    /\ \E v \in Voices :
          /\ Wrote(v) = {blk.start}
          /\ voices[v].note = NoNote
          /\ voices[v].tailOff = 0

\* what a voice has added at a sample index in this callback
Contribution(v, i) == IF contrib[v][i] = NoSample THEN 0 ELSE contrib[v][i]

RECURSIVE SumContrib(_, _)
\* the sum over the voices 1..v of what they added at index i
SumContrib(v, i) == IF v = 0 THEN 0 ELSE Contribution(v, i) + SumContrib(v - 1, i)

\* C12: inside and at the end of a render callback, every sample of the block
\* holds the sum of the samples the voices have each computed and added at
\* that index, counted from zero: a voice that added nothing counts for
\* nothing, an index no voice has written holds zero.
C12_OutputIsSumOfVoices ==
    pc /= "idle" =>
        \A i \in Samples :
            (i >= blk.start /\ i < blk.start + blk.num)
                => buffer[i] = SumContrib(NumVoices, i)

\* a block has been rendered in which two voices added a non-zero sample at
\* the same index while a third stayed idle and added none
C12_Witness ==
    /\ BlockDone
    /\ \E i \in Samples : \E v, w \in Voices :
          /\ v /= w
          /\ Contribution(v, i) > 0
          /\ Contribution(w, i) > 0
          /\ buffer[i] = Contribution(v, i) + Contribution(w, i)
    /\ \E u \in Voices : Wrote(u) = {} /\ voices[u].angleDelta = 0

\* C13: stopNote without tail-off leaves any voice idle (angleDelta 0, no
\* note), an idle voice included, and a second application changes nothing;
\* the voices a note-off without tail-off has stopped are in that state.
C13_HardStopIdempotent ==
    /\ \A v \in Voices :
          LET once == stopNote(voices[v], FALSE)
          IN  /\ once.angleDelta = 0
              /\ once.note = NoNote
              /\ stopNote(once, FALSE) = once
    /\ (lastOp.op = "noteOff" /\ ~lastOp.tail)
          => \A v \in Bound(lastOp.before, lastOp.note) :
                /\ voices[v].angleDelta = 0
                /\ voices[v].note = NoNote
                /\ stopNote(voices[v], FALSE) = voices[v]

\* a note-off without tail-off has stopped a sustaining voice that had been
\* rendered, next to a voice that was idle already
C13_Witness ==
    /\ lastOp.op = "noteOff"
    /\ ~lastOp.tail
    /\ \E v \in Bound(lastOp.before, lastOp.note) :
          /\ lastOp.before[v].tailOff = 0
          /\ lastOp.before[v].currentAngle /= 0
    /\ \E w \in Voices : IsIdle(lastOp.before[w]) /\ lastOp.before[w].level > 0

\* C14: a note-off for note n leaves every voice that is not bound to n as it
\* was; with no voice bound to n it changes nothing.
C14_NoteOffTouchesOnlyItsNote ==
    lastOp.op = "noteOff" =>
        /\ \A v \in Voices :
              lastOp.before[v].note /= lastOp.note => voices[v] = lastOp.before[v]
        /\ Bound(lastOp.before, lastOp.note) = {} => voices = lastOp.before

\* a note-off has been applied for a note no voice was bound to, while a
\* voice was playing another note and a voice used before was idle
C14_Witness ==
    /\ lastOp.op = "noteOff"
    /\ Bound(lastOp.before, lastOp.note) = {}
    /\ \E v \in Voices : lastOp.before[v].note /= NoNote /\ lastOp.before[v].tailOff = 0
    /\ \E v \in Voices : IsIdle(lastOp.before[v]) /\ lastOp.before[v].tailOff > 0

\* C15: a note-off with tail-off sets tailOff to 1.0 on a bound voice that is
\* not releasing and leaves a bound voice that is releasing exactly as it was.
C15_TailOffStopKeepsRelease ==
    (lastOp.op = "noteOff" /\ lastOp.tail) =>
        \A v \in Bound(lastOp.before, lastOp.note) :
            IF Releasing(lastOp.before[v])
            THEN voices[v] = lastOp.before[v]
            ELSE voices[v] = [lastOp.before[v] EXCEPT !.tailOff = TailOne]

\* one note-off with tail-off has met a voice part-way through its release
\* and a sustaining voice on the same note
C15_Witness ==
    /\ lastOp.op = "noteOff"
    /\ lastOp.tail
    /\ \E v, w \in Bound(lastOp.before, lastOp.note) :
          /\ Releasing(lastOp.before[v])
          /\ lastOp.before[v].tailOff < TailOne
          /\ lastOp.before[w].tailOff = 0
          /\ voices[w].tailOff = TailOne

\* tailOff is at or below the silence threshold 0.005
AtThreshold(t) == t * ThresholdDen <= ThresholdNum * TailOne

\* C16: the step of the sample loop that takes a releasing voice's tailOff to
\* 0.005 or below leaves the voice idle (no note, angleDelta 0) and ends the
\* voice's loop for this call; no step adds a sample for a voice that is idle,
\* in this call or a later one, so what an idle voice has added stays as it is
\* until the callback's buffer is given back.
C16_FreedVoiceWritesNothing ==
    [][\A v \in Voices :
         /\ (/\ Releasing(voices[v])
             /\ voices'[v].tailOff /= voices[v].tailOff
             /\ AtThreshold(voices'[v].tailOff))
               => /\ voices'[v].note = NoNote
                  /\ voices'[v].angleDelta = 0
                  /\ nLeft' = 0
         /\ (voices[v].note = NoNote \/ voices[v].angleDelta = 0)
               => contrib'[v] = contrib[v] \/ contrib'[v] = NoContrib[v]
      ]_vars

\* a 2-sample block has been rendered in which a releasing voice reached the
\* threshold at the first sample, was freed, and left the second unwritten
C16_Witness ==
    /\ BlockDone
    /\ blk.num = 2
    /\ \E v \in Voices :
          /\ Wrote(v) = {blk.start}
          /\ voices[v].note = NoNote
          /\ voices[v].angleDelta = 0
          /\ voices[v].tailOff > 0
          /\ AtThreshold(voices[v].tailOff)

\* C17: startNote leaves a voice at phase 0 with tailOff 0, whatever the voice
\* held before, a stop with or without tail-off applied first included; the
\* voice a note-on has started is bound to the note, sustaining, not releasing.
C17_StartClearsRelease ==
    /\ sampleRate /= 0 =>
          \A v \in Voices : \A n \in Notes : \A w \in Velocities :
              \A prev \in {voices[v], stopNote(voices[v], TRUE),
                            stopNote(voices[v], FALSE),
                            stopNote(stopNote(voices[v], FALSE), TRUE)} :
                  LET s == startNote(prev, n, w, sampleRate)
                  IN  s.currentAngle = 0 /\ s.tailOff = 0 /\ s.angleDelta /= 0
    /\ lastOp.op = "noteOn" =>
          \A v \in Voices :
              voices[v] /= lastOp.before[v]
                 => /\ voices[v].note = lastOp.note
                    /\ voices[v].currentAngle = 0
                    /\ voices[v].tailOff = 0
                    /\ voices[v].angleDelta /= 0
                    /\ ~Releasing(voices[v])

\* a note-on has started an idle voice that held a non-zero tailOff and an
\* advanced phase from the note it played before
C17_Witness ==
    /\ lastOp.op = "noteOn"
    /\ \E v \in Voices :
          /\ voices[v] /= lastOp.before[v]
          /\ IsIdle(lastOp.before[v])
          /\ lastOp.before[v].tailOff > 0
          /\ lastOp.before[v].currentAngle /= 0

\* C18: setDecay on the audio source gives every voice the same coefficient
\* and leaves the note, phase, angleDelta, level and tailOff of every voice as
\* they were.
C18_SetDecayChangesOnlyDecay ==
    /\ \A d \in Decays : \A v \in Voices :
          LET s == PoolSetDecay(PoolNow, d).vs[v]
          IN  /\ s.decay = d
              /\ s.note = voices[v].note
              /\ s.currentAngle = voices[v].currentAngle
              /\ s.angleDelta = voices[v].angleDelta
              /\ s.level = voices[v].level
              /\ s.tailOff = voices[v].tailOff
    /\ lastOp.op = "setDecay" =>
          \E d \in Decays : \A v \in Voices :
              /\ voices[v].decay = d
              /\ voices[v].note = lastOp.before[v].note
              /\ voices[v].currentAngle = lastOp.before[v].currentAngle
              /\ voices[v].angleDelta = lastOp.before[v].angleDelta
              /\ voices[v].level = lastOp.before[v].level
              /\ voices[v].tailOff = lastOp.before[v].tailOff

\* setDecay has changed the coefficient of a voice part-way through its release
C18_Witness ==
    /\ lastOp.op = "setDecay"
    /\ \E v \in Voices :
          /\ Releasing(lastOp.before[v])
          /\ lastOp.before[v].tailOff < TailOne
          /\ voices[v].decay /= lastOp.before[v].decay

\* C19: the decay coefficient of every voice is above 0 and below 1.
C19_DecayInUnitInterval ==
    \A v \in Voices :
        /\ voices[v].decay[2] > 0
        /\ voices[v].decay[1] > 0
        /\ voices[v].decay[1] < voices[v].decay[2]

\* the slider has given the voices a coefficient other than the constructor's,
\* while a voice is releasing
C19_Witness ==
    /\ \A v \in Voices : voices[v].decay /= InitDecay
    /\ \E v \in Voices : Releasing(voices[v])

\* C20: a voice that is bound to a note and releasing has a tailOff above
\* 0.005 and at most 1.0.
C20_ReleasingAboveThreshold ==
    \A v \in Voices :
        Releasing(voices[v])
            => /\ ~AtThreshold(voices[v].tailOff)
               /\ voices[v].tailOff <= TailOne

\* between two render callbacks a voice is part-way through its release
C20_Witness ==
    /\ pc = "idle"
    /\ \E v \in Voices :
          /\ Releasing(voices[v])
          /\ voices[v].tailOff < TailOne
          /\ relSamples[v] >= 1

====
